---- MODULE Spec2Model ----
(***************************************************************************)
(* The MNIST example workflow: three stage scripts (download.py, train.py, *)
(* eval.py), each a short linear program run as its own process.  A run is *)
(* one stage; its position is pc, an index into the stage's Program, with  *)
(* sub the position inside train(), eval() and load_to_device().           *)
(* The output directory can be deleted by the environment while the stage  *)
(* runs.                                                                   *)
(* Accuracies are fractions num/den of integers: 100 * class_correct /     *)
(* (class_total + 0.0001) is kept as (100 * cc * EpsInv) / (ct*EpsInv + 1).*)
(***************************************************************************)
EXTENDS Integers, Sequences, FiniteSets, TLC

VARIABLES
    stage,          \* which script runs: "download", "train" or "eval"
    pc,             \* index into Program(stage) of the next statement
    sub,            \* position inside train / eval / load_to_device
    status,         \* "running", "done" (last log line written) or "failed"
    error,          \* the exception that ended the run, "none" otherwise
    use_cuda,       \* conf["use_cuda"]
    cuda_available, \* torch.cuda.is_available()
    device,         \* the selected torch.device: "unset", "cpu", "cuda"
    warned,         \* the "no cuda devices found" warning was logged
    epochs,         \* conf["epochs"]
    nTrainBatches,  \* batches the training loader yields per epoch
    nTest,          \* examples in the test split
    batch_size,     \* conf["batch_size"]
    mode,           \* model.training: "none" (no model yet), "train", "eval"
    modeLog,        \* the modes the model was put in, in order
    modelDevice,    \* device the model's parameters live on
    weights,        \* "none", "init", "updated", "partial", "loaded"
    gradEnabled,    \* torch.is_grad_enabled()
    epoch,          \* train: epochs completed
    batch,          \* train: batches completed in the current epoch
    opIdx,          \* train: next statement of the batch body, 0 between batches
    batchOps,       \* train: statements of the batch body run on the current batch
    optSteps,       \* train: optimiser.step() calls so far
    seen,           \* eval: test examples consumed
    correct,        \* eval: local correct
    total,          \* eval: local total
    class_correct,  \* eval: local class_correct
    class_total,    \* eval: local class_total
    results,        \* eval: the returned dict, <<>> before
    fwdLog,         \* forward passes run: their model mode, grad mode, device
    loads,          \* load_to_device: map_location of each torch.load call
    dirExists,      \* the output directory exists
    onDisk,         \* files present in the output directory
    trace,          \* output operations performed, in order
    deletedAt       \* the values of pc at which the environment deleted the directory

vars == <<stage, pc, sub, status, error, use_cuda, cuda_available, device,
          warned, epochs, nTrainBatches, nTest, batch_size, mode, modeLog,
          modelDevice,
          weights, gradEnabled, epoch, batch, opIdx, batchOps, optSteps, seen,
          correct, total, class_correct, class_total, results, fwdLog, loads,
          dirExists, onDisk, trace, deletedAt>>

confVars  == <<stage, use_cuda, cuda_available, epochs, nTrainBatches, nTest,
               batch_size, gradEnabled>>
devVars   == <<device, warned>>
modelVars == <<mode, modeLog, modelDevice, weights>>
trainVars == <<epoch, batch, opIdx, batchOps, optSteps>>
evalVars  == <<seen, correct, total, class_correct, class_total, results>>
fsVars    == <<dirExists, onDisk, trace, deletedAt>>

----------------------------------------------------------------------------
(* Bounds *)

MaxEpochs == 2
MaxTrainBatches == 2
MaxBatch == 2
MaxTest == 3
MaxStageTest == 1
MaxDeletes == 1

----------------------------------------------------------------------------
(* Program constants *)

classes == 10
EpsInv == 10000

Stages == {"download", "train", "eval"}
Labels == 0 .. (classes - 1)

Min(a, b) == IF a < b THEN a ELSE b

----------------------------------------------------------------------------
(* The scripts *)

Step(op, f) == [op |-> op, f |-> f]

\* The declared output files of each stage.
Outputs(s) ==
    CASE s = "download" -> {"download_conf.json"}
      [] s = "train"    -> {"model.pkl", "training_conf.json"}
      [] s = "eval"     -> {"eval_results.json", "eval_conf.json"}

\* A body that checks only at its end (download: before it has written).
SaveSteps_CheckAtEnd(s) ==
    CASE s = "download" -> <<Step("check", "download_conf.json"),
                             Step("write", "download_conf.json")>>
      [] s = "train"    -> <<Step("write", "model.pkl"),
                             Step("write", "training_conf.json"),
                             Step("check", "training_conf.json")>>
      [] s = "eval"     -> <<Step("write", "eval_results.json"),
                             Step("write", "eval_conf.json"),
                             Step("check", "eval_conf.json")>>

\* save_conf, save_model_and_conf, save_results_and_conf: write a file, then
\* test that it exists, file by file.
SaveSteps(s) ==
    CASE s = "download" -> <<Step("write", "download_conf.json"),
                             Step("check", "download_conf.json")>>
      [] s = "train"    -> <<Step("write", "model.pkl"),
                             Step("check", "model.pkl"),
                             Step("write", "training_conf.json"),
                             Step("check", "training_conf.json")>>
      [] s = "eval"     -> <<Step("write", "eval_results.json"),
                             Step("check", "eval_results.json"),
                             Step("write", "eval_conf.json"),
                             Step("check", "eval_conf.json")>>

\* The statements of each script's __main__ block before it saves.
MainSteps(s) ==
    CASE s = "download" -> <<Step("create_dir", ""), Step("download_mnist", "")>>
      [] s = "train"    -> <<Step("select_device", ""), Step("load_mnist", ""),
                             Step("construct", ""), Step("train", ""),
                             Step("create_dir", "")>>
      [] s = "eval"     -> <<Step("select_device", ""), Step("load_mnist", ""),
                             Step("load_to_device", ""), Step("eval", ""),
                             Step("create_dir", "")>>

Program(s) == MainSteps(s) \o SaveSteps(s) \o <<Step("log", "")>>

Cur == Program(stage)[pc]
At(op) == status = "running" /\ pc <= Len(Program(stage)) /\ Cur.op = op

\* Index of the statement op of a script.
Idx(s, op) == CHOOSE i \in DOMAIN Program(s) : Program(s)[i].op = op

IsCheck(st) == st.op = "check"
\* Steps that create the output directory: create_dir_if_doesnt_exist, and
\* in download.py MNIST(path, download=True), which makes path/MNIST/raw.
IsCreating(st) == st.op \in {"create_dir", "download_mnist"}

\* Index of the last existence check of a script.
LastCheckIdx(s) ==
    CHOOSE i \in DOMAIN Program(s) :
        /\ IsCheck(Program(s)[i])
        /\ \A j \in DOMAIN Program(s) : IsCheck(Program(s)[j]) => j <= i

\* Index of the last statement of a script that creates the directory.
LastCreateIdx(s) ==
    CHOOSE i \in DOMAIN Program(s) :
        /\ IsCreating(Program(s)[i])
        /\ \A j \in DOMAIN Program(s) : IsCreating(Program(s)[j]) => j <= i

\* if conf["use_cuda"]: ... the three-way choice of device.
SelectedDevice_NoFallback(use, avail) == IF use THEN "cuda" ELSE "cpu"

SelectedDevice(use, avail) ==
    IF use THEN (IF ~avail THEN "cpu" ELSE "cuda") ELSE "cpu"

\* path.exists() of a file in the output directory.
Exists_Always(f) == TRUE

Exists(f) == dirExists /\ f \in onDisk

Fail(e) == /\ status' = "failed"
           /\ error' = e
           /\ UNCHANGED <<pc, sub>>

Advance == /\ pc' = pc + 1
           /\ sub' = ""
           /\ UNCHANGED <<status, error>>

----------------------------------------------------------------------------
(* __main__ : device selection and data loading *)

SelectDevice ==
    /\ At("select_device")
    /\ device' = SelectedDevice(use_cuda, cuda_available)
    /\ warned' = (use_cuda /\ ~cuda_available)
    /\ Advance
    /\ UNCHANGED <<confVars, modelVars, trainVars, evalVars, fwdLog, loads, fsVars>>

\* MNIST(path, download=False) raises when the data is not there.
LoadMnist ==
    /\ At("load_mnist")
    /\ \/ Advance
       \/ Fail("RuntimeError")
    /\ UNCHANGED <<confVars, devVars, modelVars, trainVars, evalVars, fwdLog,
                   loads, fsVars>>

\* model = MNIST_CNN(): a fresh nn.Module is on the CPU and in training mode.
Construct ==
    /\ At("construct")
    /\ mode' = "train"
    /\ modeLog' = <<"train">>
    /\ modelDevice' = "cpu"
    /\ weights' = "init"
    /\ Advance
    /\ UNCHANGED <<confVars, devVars, trainVars, evalVars, fwdLog, loads, fsVars>>

----------------------------------------------------------------------------
(* train.py : train() *)

\* A batch body that steps the optimiser before it back-propagates.
BatchOps_StepBeforeBackward == <<"zero_grad", "forward", "loss", "step", "backward">>

\* The body of the batch loop, after the batch is moved to the device.
BatchOps == <<"zero_grad", "forward", "loss", "backward", "step">>

\* A train() that returns without model.eval().
ModeAfterTrain_NoEval == "train"

\* model.eval() before return model.
ModeAfterTrain == "eval"

\* model.to(device); model.train(); the optimiser and the loss function.
TrainBegin ==
    /\ At("train") /\ sub = ""
    /\ modelDevice' = device
    /\ mode' = "train"
    /\ modeLog' = Append(modeLog, "train")
    /\ epoch' = 0 /\ batch' = 0 /\ opIdx' = 0 /\ batchOps' = <<>> /\ optSteps' = 0
    /\ sub' = "loop"
    /\ UNCHANGED <<pc, status, error, confVars, devVars, weights, evalVars,
                   fwdLog, loads, fsVars>>

\* The loader yields the next batch; batch_x and batch_y move to the device.
TrainFetch ==
    /\ At("train") /\ sub = "loop"
    /\ epoch < epochs /\ batch < nTrainBatches /\ opIdx = 0
    /\ opIdx' = 1
    /\ batchOps' = <<>>
    /\ UNCHANGED <<pc, sub, status, error, confVars, devVars, modelVars, epoch,
                   batch, optSteps, evalVars, fwdLog, loads, fsVars>>

\* One statement of the batch body.
TrainOp ==
    /\ At("train") /\ sub = "loop"
    /\ opIdx \in 1 .. Len(BatchOps)
    /\ LET op == BatchOps[opIdx] IN
        /\ batchOps' = Append(batchOps, op)
        /\ fwdLog' = IF op = "forward"
                     THEN fwdLog \cup {[mode |-> mode, grad |-> gradEnabled,
                                        dev |-> modelDevice]}
                     ELSE fwdLog
        /\ optSteps' = IF op = "step" THEN optSteps + 1 ELSE optSteps
        /\ weights' = IF op = "step" THEN "updated" ELSE weights
    /\ IF opIdx = Len(BatchOps)
       THEN opIdx' = 0 /\ batch' = batch + 1
       ELSE opIdx' = opIdx + 1 /\ batch' = batch
    /\ UNCHANGED <<pc, sub, status, error, confVars, devVars, mode, modeLog,
                   modelDevice, epoch, evalVars, loads, fsVars>>

\* The loader is exhausted: the next epoch of range(conf["epochs"]).
TrainEpochEnd ==
    /\ At("train") /\ sub = "loop"
    /\ epoch < epochs /\ batch = nTrainBatches /\ opIdx = 0
    /\ epoch' = epoch + 1
    /\ batch' = 0
    /\ UNCHANGED <<pc, sub, status, error, confVars, devVars, modelVars, opIdx,
                   batchOps, optSteps, evalVars, fwdLog, loads, fsVars>>

\* range(conf["epochs"]) is exhausted: model.eval(); return model.
TrainReturn ==
    /\ At("train") /\ sub = "loop"
    /\ epoch >= epochs
    /\ mode' = ModeAfterTrain
    /\ modeLog' = Append(modeLog, ModeAfterTrain)
    /\ Advance
    /\ UNCHANGED <<confVars, devVars, modelDevice, weights, trainVars, evalVars,
                   fwdLog, loads, fsVars>>

----------------------------------------------------------------------------
(* eval.py : load_to_device() *)

\* A load with no except clause.
Handler_None(block) == "propagate"

\* The except clause that covers a statement: the bare except covers the try
\* body; nothing covers the statements of the except body.
Handler(block) ==
    IF block \in {"try_load", "try_state"} THEN "except_load" ELSE "propagate"

\* The map_location of the torch.load in a block.
MapLocation(block) == IF block = "try_load" THEN "default" ELSE "cpu"

Raise(block) ==
    IF Handler(block) = "propagate"
    THEN Fail("LoadError")
    ELSE sub' = Handler(block) /\ UNCHANGED <<pc, status, error>>

\* loaded_model = MNIST_CNN(): on the CPU, in training mode.
LoadConstruct ==
    /\ At("load_to_device") /\ sub = ""
    /\ mode' = "train"
    /\ modeLog' = <<"train">>
    /\ modelDevice' = "cpu"
    /\ weights' = "init"
    /\ sub' = "try_load"
    /\ UNCHANGED <<pc, status, error, confVars, devVars, trainVars, evalVars,
                   fwdLog, loads, fsVars>>

\* torch.load(path_to_model[, map_location=cpu]): returns the blob or raises.
TorchLoad ==
    /\ At("load_to_device") /\ sub \in {"try_load", "except_load"}
    /\ loads' = Append(loads, MapLocation(sub))
    /\ \/ /\ sub' = IF sub = "try_load" THEN "try_state" ELSE "except_state"
          /\ UNCHANGED <<pc, status, error>>
       \/ Raise(sub)
    /\ UNCHANGED <<confVars, devVars, modelVars, trainVars, evalVars, fwdLog,
                   fsVars>>

\* loaded_model.load_state_dict(weights_dict): copies the values or raises,
\* possibly after it copied some of them.  On success the function returns.
LoadStateDict ==
    /\ At("load_to_device") /\ sub \in {"try_state", "except_state"}
    /\ \/ /\ weights' = "loaded"
          /\ Advance
       \/ /\ weights' \in {weights, "partial"}
          /\ Raise(sub)
    /\ UNCHANGED <<confVars, devVars, mode, modeLog, modelDevice, trainVars,
                   evalVars, fwdLog, loads, fsVars>>

----------------------------------------------------------------------------
(* eval.py : eval() *)

\* A test example as eval sees it: its label batch_y[i] and the class
\* predicted[i] the model's output is largest for.  Only predicted == label
\* is read, so one right and one wrong class stand for the ten.
Examples ==
    UNION {{[y |-> l, p |-> q] : q \in {l, (l + 1) % classes}} : l \in Labels}

\* c = predicted == batch_y.squeeze(); c[i].item()
Hit(e) == IF e.p = e.y THEN 1 ELSE 0

RECURSIVE Hits(_)
Hits(b) == IF b = <<>> THEN 0 ELSE Hit(Head(b)) + Hits(Tail(b))

\* A count of every example as correct.
CorrectAfter_CountAll(c, b) == c + Len(b)

\* correct += (predicted == batch_y).sum().item()
CorrectAfter(c, b) == c + Hits(b)

\* total += batch_y.size(0)
TotalAfter(t, b) == t + Len(b)

\* for i in range(batch_y.shape[0]): class_correct[label] += c[i].item()
RECURSIVE ClassCorrectAfter(_, _)
ClassCorrectAfter(cc, b) ==
    IF b = <<>> THEN cc
    ELSE ClassCorrectAfter([cc EXCEPT ![Head(b).y] = @ + Hit(Head(b))], Tail(b))

\* for i in range(batch_y.shape[0]): class_total[label] += 1
RECURSIVE ClassTotalAfter(_, _)
ClassTotalAfter(ct, b) ==
    IF b = <<>> THEN ct
    ELSE ClassTotalAfter([ct EXCEPT ![Head(b).y] = @ + 1], Tail(b))

\* An aggregate with the additive constant of the per-class accuracies.
AverageAccuracy_WithEps(c, t) == [num |-> 100 * c * EpsInv, den |-> t * EpsInv + 1]

\* accuracy = 100 * correct / total
AverageAccuracy(c, t) == [num |-> 100 * c, den |-> t]

\* A per-class accuracy without the additive constant.
ClassAccuracy_NoEps(cc, ct) == [num |-> 100 * cc, den |-> ct]

\* accuracy = 100 * class_correct[i] / (class_total[i] + 0.0001)
ClassAccuracy(cc, ct) == [num |-> 100 * cc * EpsInv, den |-> ct * EpsInv + 1]

Digit == <<"0", "1", "2", "3", "4", "5", "6", "7", "8", "9">>

\* f"class_{i}_accuracy"
ClassKey(i) == "class_" \o Digit[i + 1] \o "_accuracy"

\* The dict eval fills: results["average_accuracy"], then one key per class.
ResultsOf(c, t, cc, ct) ==
    [k \in {"average_accuracy"} \cup {ClassKey(i) : i \in 0 .. (classes - 1)} |->
        IF k = "average_accuracy"
        THEN AverageAccuracy(c, t)
        ELSE LET i == CHOOSE j \in 0 .. (classes - 1) : ClassKey(j) = k
             IN  ClassAccuracy(cc[i], ct[i])]

\* A division raises ZeroDivisionError when its denominator is 0.
DivisionRaises(r) == \E k \in DOMAIN r : r[k].den = 0

\* classes, results, the four counters; model.to(device); model.eval().
EvalBegin ==
    /\ At("eval") /\ sub = ""
    /\ correct' = 0 /\ total' = 0 /\ seen' = 0
    /\ class_correct' = [i \in Labels |-> 0]
    /\ class_total' = [i \in Labels |-> 0]
    /\ modelDevice' = device
    /\ mode' = "eval"
    /\ modeLog' = Append(modeLog, "eval")
    /\ sub' = "loop"
    /\ UNCHANGED <<pc, status, error, confVars, devVars, weights, trainVars,
                   results, fwdLog, loads, fsVars>>

\* One iteration of the loop over the test loader: batch_size examples, fewer
\* in the last batch; the forward pass; the six counter updates.
EvalBatch ==
    /\ At("eval") /\ sub = "loop"
    /\ seen < nTest
    /\ \E b \in [1 .. Min(batch_size, nTest - seen) -> Examples] :
        /\ fwdLog' = fwdLog \cup {[mode |-> mode, grad |-> gradEnabled,
                                   dev |-> modelDevice]}
        /\ total' = TotalAfter(total, b)
        /\ correct' = CorrectAfter(correct, b)
        /\ class_correct' = ClassCorrectAfter(class_correct, b)
        /\ class_total' = ClassTotalAfter(class_total, b)
        /\ seen' = seen + Len(b)
    /\ UNCHANGED <<pc, sub, status, error, confVars, devVars, modelVars,
                   trainVars, results, loads, fsVars>>

\* The loader is exhausted: the accuracies are computed and returned.
EvalReturn ==
    /\ At("eval") /\ sub = "loop"
    /\ seen = nTest
    /\ LET r == ResultsOf(correct, total, class_correct, class_total) IN
        IF DivisionRaises(r)
        THEN Fail("ZeroDivisionError") /\ results' = results
        ELSE Advance /\ results' = r
    /\ UNCHANGED <<confVars, devVars, modelVars, trainVars, seen, correct, total,
                   class_correct, class_total, fwdLog, loads, fsVars>>

----------------------------------------------------------------------------
(* Output: the directory, the artifact files, the environment *)

Event(op, f, ok) == [op |-> op, f |-> f, ok |-> ok]

\* create_dir_if_doesnt_exist: mkdir(parents=True, exist_ok=True) when absent.
CreateDir ==
    /\ At("create_dir")
    /\ dirExists' = TRUE
    /\ trace' = Append(trace, Event("create_dir", "", TRUE))
    /\ Advance
    /\ UNCHANGED <<confVars, devVars, modelVars, trainVars, evalVars, fwdLog,
                   loads, onDisk, deletedAt>>

\* MNIST(path, train=True/False, download=True): the data lands under the
\* directory (made when absent), or the download error propagates.
DownloadMnist ==
    /\ At("download_mnist")
    /\ \/ /\ dirExists' = TRUE
          /\ onDisk' = onDisk \cup {"MNIST"}
          /\ Advance
       \/ /\ Fail("DownloadError")
          /\ UNCHANGED <<dirExists, onDisk>>
    /\ UNCHANGED <<confVars, devVars, modelVars, trainVars, evalVars, fwdLog,
                   loads, trace, deletedAt>>

\* open(path, "w") + json.dump, or torch.save: creates the file in the
\* directory; raises when the directory is absent.
WriteFile ==
    /\ At("write")
    /\ IF dirExists
       THEN /\ onDisk' = onDisk \cup {Cur.f}
            /\ trace' = Append(trace, Event("write", Cur.f, TRUE))
            /\ Advance
       ELSE /\ onDisk' = onDisk
            /\ trace' = Append(trace, Event("write", Cur.f, FALSE))
            /\ Fail("FileNotFoundError")
    /\ UNCHANGED <<confVars, devVars, modelVars, trainVars, evalVars, fwdLog,
                   loads, dirExists, deletedAt>>

\* if not path.exists(): raise IOError(...)
CheckFile ==
    /\ At("check")
    /\ IF Exists(Cur.f)
       THEN /\ trace' = Append(trace, Event("check", Cur.f, TRUE))
            /\ Advance
       ELSE /\ trace' = Append(trace, Event("check", Cur.f, FALSE))
            /\ Fail("IOError")
    /\ UNCHANGED <<confVars, devVars, modelVars, trainVars, evalVars, fwdLog,
                   loads, dirExists, onDisk, deletedAt>>

\* The closing log.info lines: the run reports its saved paths and ends.
LogSaved ==
    /\ At("log")
    /\ status' = "done"
    /\ pc' = pc + 1
    /\ UNCHANGED <<sub, error, confVars, devVars, modelVars, trainVars, evalVars,
                   fwdLog, loads, fsVars>>

\* The environment removes the output directory and all it holds.
EnvDeleteDir ==
    /\ status = "running"
    /\ dirExists
    /\ Cardinality(deletedAt) < MaxDeletes
    /\ dirExists' = FALSE
    /\ onDisk' = {}
    /\ deletedAt' = deletedAt \cup {pc}
    /\ UNCHANGED <<pc, sub, status, error, confVars, devVars, modelVars,
                   trainVars, evalVars, fwdLog, loads, trace>>

----------------------------------------------------------------------------
(* Specifications *)

\* A stage script starts: arguments parsed, nothing run yet.
Init ==
    /\ stage \in Stages
    /\ pc = 1 /\ sub = "" /\ status = "running" /\ error = "none"
    /\ use_cuda \in (IF stage = "download" THEN {FALSE} ELSE BOOLEAN)
    /\ cuda_available \in (IF stage = "download" THEN {FALSE} ELSE BOOLEAN)
    /\ device = "unset" /\ warned = FALSE
    /\ epochs \in (IF stage = "train" THEN 0 .. MaxEpochs ELSE {0})
    /\ nTrainBatches \in (IF stage = "train" THEN 0 .. MaxTrainBatches ELSE {0})
    /\ nTest \in (IF stage = "eval" THEN 0 .. MaxStageTest ELSE {0})
    /\ batch_size \in (IF stage = "eval" THEN 1 .. MaxBatch ELSE {1})
    /\ mode = "none" /\ modeLog = <<>>
    /\ modelDevice = "unset" /\ weights = "none"
    /\ gradEnabled = TRUE
    /\ epoch = 0 /\ batch = 0 /\ opIdx = 0 /\ batchOps = <<>> /\ optSteps = 0
    /\ seen = 0 /\ correct = 0 /\ total = 0
    /\ class_correct = [i \in Labels |-> 0]
    /\ class_total = [i \in Labels |-> 0]
    /\ results = <<>>
    /\ fwdLog = {}
    /\ loads = <<>>
    /\ dirExists \in BOOLEAN
    /\ onDisk = {}
    /\ trace = <<>>
    /\ deletedAt = {}

Next ==
    \/ SelectDevice
    \/ LoadMnist
    \/ Construct
    \/ TrainBegin
    \/ TrainFetch
    \/ TrainOp
    \/ TrainEpochEnd
    \/ TrainReturn
    \/ LoadConstruct
    \/ TorchLoad
    \/ LoadStateDict
    \/ EvalBegin
    \/ EvalBatch
    \/ EvalReturn
    \/ CreateDir
    \/ DownloadMnist
    \/ WriteFile
    \/ CheckFile
    \/ LogSaved
    \/ EnvDeleteDir

Spec == Init /\ [][Next]_vars

\* eval() is entered: eval.py has selected the device and loaded the model.
InitEval ==
    /\ stage = "eval"
    /\ pc = Idx("eval", "eval") /\ sub = "" /\ status = "running" /\ error = "none"
    /\ use_cuda \in BOOLEAN
    /\ cuda_available \in BOOLEAN
    /\ device = SelectedDevice(use_cuda, cuda_available)
    /\ warned = (use_cuda /\ ~cuda_available)
    /\ epochs = 0 /\ nTrainBatches = 0
    /\ nTest \in 0 .. MaxTest
    /\ batch_size \in 1 .. MaxBatch
    /\ mode = "train" /\ modeLog = <<"train">>
    /\ modelDevice = "cpu" /\ weights = "loaded"
    /\ gradEnabled = TRUE
    /\ epoch = 0 /\ batch = 0 /\ opIdx = 0 /\ batchOps = <<>> /\ optSteps = 0
    /\ seen = 0 /\ correct = 0 /\ total = 0
    /\ class_correct = [i \in Labels |-> 0]
    /\ class_total = [i \in Labels |-> 0]
    /\ results = <<>>
    /\ fwdLog = {}
    /\ loads = <<"default">>
    /\ dirExists = FALSE
    /\ onDisk = {}
    /\ trace = <<>>
    /\ deletedAt = {}

NextEval ==
    \/ EvalBegin
    \/ EvalBatch
    \/ EvalReturn

SpecEval == InitEval /\ [][NextEval]_vars

----------------------------------------------------------------------------
(* Properties *)

RECURSIVE SumTo(_, _)
SumTo(f, i) == IF i < 0 THEN 0 ELSE f[i] + SumTo(f, i - 1)
SumClasses(f) == SumTo(f, classes - 1)

Returned(s, op) == stage = s /\ pc > Idx(s, op)
DeletedAfterCreate == \E p \in deletedAt : p > Idx(stage, "create_dir")
DeletedInWindow ==
    \E p \in deletedAt : /\ p > LastCreateIdx(stage)
                         /\ p <= LastCheckIdx(stage)
DeletedLate == \E p \in deletedAt : p > LastCheckIdx(stage)

\* C1: in every stage, a file is written only after create_dir_if_doesnt_exist
\* has run, every existence check directly follows the write of its file, a
\* check that finds the file absent ends the stage with IOError and nothing
\* runs after it, and a stage that ends successfully has written and then
\* checked each of its output files.
C1_EnsureWriteCheck ==
    /\ \A i \in DOMAIN trace :
          trace[i].op = "write" => \E j \in 1 .. (i - 1) : trace[j].op = "create_dir"
    /\ \A i \in DOMAIN trace :
          trace[i].op = "check" =>
              i > 1 /\ trace[i - 1] = Event("write", trace[i].f, TRUE)
    /\ \A i \in DOMAIN trace :
          (trace[i].op = "check" /\ ~trace[i].ok) =>
              i = Len(trace) /\ status = "failed" /\ error = "IOError"
    /\ status = "done" =>
          \A f \in Outputs(stage) : \E i \in DOMAIN trace : trace[i] = Event("check", f, TRUE)

\* A stage whose existence check found the file gone after two files were
\* written: the check raised IOError.
C1_Witness ==
    /\ status = "failed" /\ error = "IOError"
    /\ Len(trace) = 5
    /\ trace[5] = Event("check", trace[4].f, FALSE)

\* C2: in eval, after every batch correct = sum(class_correct) and
\* total = sum(class_total), and the returned average_accuracy equals
\* 100 * sum(class_correct) / sum(class_total).
C2_AggregateIsClassSum ==
    (stage = "eval" /\ (sub = "loop" \/ Returned("eval", "eval"))) =>
        /\ correct = SumClasses(class_correct)
        /\ total = SumClasses(class_total)
        /\ Returned("eval", "eval") =>
              /\ SumClasses(class_total) > 0
              /\ results["average_accuracy"].num * SumClasses(class_total)
                   = 100 * SumClasses(class_correct) * results["average_accuracy"].den

\* eval returned after batches with hits and misses in more than one class.
C2_Witness ==
    /\ Returned("eval", "eval")
    /\ total >= 3 /\ correct >= 1 /\ correct < total
    /\ \E i, j \in Labels : i # j /\ class_total[i] > 0 /\ class_correct[j] > 0

\* C3 as stated: in Training the model is in train mode in the batch loop and
\* in eval mode once train has returned; in Evaluation the model is in eval
\* mode from its construction on; the model never goes from eval to train.
C3_AsStated ==
    /\ (stage = "train" /\ At("train") /\ sub = "loop") => mode = "train"
    /\ (stage = "train") => \A e \in fwdLog : e.mode = "train"
    /\ Returned("train", "train") => mode = "eval"
    /\ (stage = "eval" /\ mode # "none") => mode = "eval"
    /\ \A i, j \in DOMAIN modeLog :
          i < j => ~(modeLog[i] = "eval" /\ modeLog[j] = "train")

\* C3 amended: as stated for Training; in Evaluation the model is in eval
\* mode from the model.eval() call at the start of eval (before the first
\* batch) until the run ends, and every forward pass runs in eval mode; the
\* model never goes from eval to train.
C3_ModeOneDirection ==
    /\ (stage = "train" /\ At("train") /\ sub = "loop") => mode = "train"
    /\ (stage = "train") => \A e \in fwdLog : e.mode = "train"
    /\ Returned("train", "train") => mode = "eval"
    /\ (stage = "eval" /\ ((At("eval") /\ sub = "loop") \/ Returned("eval", "eval")))
          => mode = "eval"
    /\ (stage = "eval") => \A e \in fwdLog : e.mode = "eval"
    /\ \A i, j \in DOMAIN modeLog :
          i < j => ~(modeLog[i] = "eval" /\ modeLog[j] = "train")

\* An Evaluation run that ended after forward passes, its model having been
\* in train mode (from construction) and then in eval mode.
C3_Witness ==
    /\ stage = "eval" /\ status = "done"
    /\ fwdLog # {}
    /\ modeLog = <<"train", "eval">>

\* C4: load_to_device calls torch.load at most twice, first with the default
\* map_location and then mapped to the CPU; it fails only after the
\* CPU-mapped retry, and it returns only with the parameters loaded.
C4_RetryOnceOnCpu ==
    stage = "eval" =>
        /\ loads \in {<<>>, <<"default">>, <<"default", "cpu">>}
        /\ (sub \in {"except_load", "except_state"}) => loads # <<>>
        /\ (status = "failed" /\ error = "LoadError") =>
              loads = <<"default", "cpu">> /\ pc = Idx("eval", "load_to_device")
        /\ Returned("eval", "load_to_device") => weights = "loaded"

\* load_to_device returned after its first attempt failed and the retry
\* succeeded.
C4_Witness ==
    /\ Returned("eval", "load_to_device")
    /\ loads = <<"default", "cpu">>
    /\ weights = "loaded"

\* C5: in train the statements run on a batch are, in order, zero_grad,
\* forward, loss, backward, step; the optimiser has stepped once per batch
\* completed, epochs * batches times when train returns; with epochs = 0 no
\* step is made and the parameters stay as initialised.
C5_StepsPerBatch ==
    stage = "train" =>
        /\ batchOps = SubSeq(<<"zero_grad", "forward", "loss", "backward", "step">>,
                             1, Len(batchOps))
        /\ (At("train") /\ sub = "loop") => optSteps = epoch * nTrainBatches + batch
        /\ Returned("train", "train") =>
              /\ optSteps = epochs * nTrainBatches
              /\ epochs = 0 => (optSteps = 0 /\ weights = "init")

\* train returned after two epochs of two batches.
C5_Witness ==
    /\ Returned("train", "train")
    /\ epochs >= 2 /\ nTrainBatches >= 2
    /\ optSteps = epochs * nTrainBatches
    /\ batchOps = <<"zero_grad", "forward", "loss", "backward", "step">>

\* C6: in Training and Evaluation the selected device is cuda only when
\* use_cuda is set and a CUDA device is available; with use_cuda set and no
\* CUDA device the selection does not raise, the warning is logged, the
\* device is the CPU, and the model and every forward pass are on the CPU.
C6_DeviceFallback ==
    stage \in {"train", "eval"} =>
        /\ device = "cuda" => (use_cuda /\ cuda_available)
        /\ pc > Idx(stage, "select_device") =>
              device = (IF use_cuda /\ cuda_available THEN "cuda" ELSE "cpu")
        /\ (use_cuda /\ ~cuda_available) =>
              /\ pc > Idx(stage, "select_device") => (device = "cpu" /\ warned)
              /\ status = "failed" => pc > Idx(stage, "select_device")
              /\ modelDevice \in {"unset", "cpu"}
              /\ \A e \in fwdLog : e.dev = "cpu"

\* A run with use_cuda set and no CUDA device that ran forward passes and
\* ended successfully.
C6_Witness ==
    /\ use_cuda /\ ~cuda_available
    /\ status = "done"
    /\ fwdLog # {}
    /\ device = "cpu"

\* C7 as stated: a stage that ends successfully has each of its output files
\* on disk at that moment, and a stage whose output directory was deleted
\* after create_dir_if_doesnt_exist ran does not end successfully.
C7_AsStated ==
    /\ status = "done" => (dirExists /\ Outputs(stage) \subseteq onDisk)
    /\ DeletedAfterCreate => status # "done"

\* C7 amended: a stage that ends successfully, with no deletion of the
\* output directory after its last existence check, has each of its output
\* files on disk; a stage whose output directory was deleted after the last
\* step that creates it and before its last existence check does not end
\* successfully.
C7_DeletionBeforeLastCheck ==
    /\ (status = "done" /\ ~DeletedLate) => (dirExists /\ Outputs(stage) \subseteq onDisk)
    /\ DeletedInWindow => status # "done"

\* A stage that failed after its directory was deleted between the last
\* creating step and the last existence check.
C7_Witness ==
    /\ DeletedInWindow
    /\ status = "failed"
    /\ error \in {"IOError", "FileNotFoundError"}

\* C8: the dict eval returns has the 11 keys average_accuracy and
\* class_0_accuracy .. class_9_accuracy, every value lies in [0, 100], a
\* class without test examples has accuracy 0, and eval raises no division
\* error when the test split is not empty.
C8_ResultsInRange ==
    stage = "eval" =>
        /\ Returned("eval", "eval") =>
              /\ DOMAIN results =
                    {"average_accuracy", "class_0_accuracy", "class_1_accuracy",
                     "class_2_accuracy", "class_3_accuracy", "class_4_accuracy",
                     "class_5_accuracy", "class_6_accuracy", "class_7_accuracy",
                     "class_8_accuracy", "class_9_accuracy"}
              /\ Cardinality(DOMAIN results) = 11
              /\ \A k \in DOMAIN results :
                    /\ results[k].den > 0
                    /\ results[k].num >= 0
                    /\ results[k].num <= 100 * results[k].den
              /\ \A i \in Labels :
                    class_total[i] = 0 => results[ClassKey(i)].num = 0
        /\ (status = "failed" /\ error = "ZeroDivisionError") => nTest = 0

\* eval returned for a test split in which some class is absent and another
\* has a correct prediction.
C8_Witness ==
    /\ Returned("eval", "eval")
    /\ \E i, j \in Labels : class_total[i] = 0 /\ class_correct[j] > 0

\* C9: in Evaluation no forward pass runs with gradient tracking enabled.
C9_NoGradInEval ==
    stage = "eval" => \A e \in fwdLog : ~e.grad

\* C10: with an empty test split Evaluation never gets past eval, which ends
\* with ZeroDivisionError; the directory is not created and no file is
\* written.
C10_EmptyTestSplit ==
    (stage = "eval" /\ nTest = 0) =>
        /\ pc <= Idx("eval", "eval")
        /\ status # "done"
        /\ trace = <<>> /\ onDisk = {}
        /\ results = <<>>
        /\ (At("eval") /\ sub = "loop") => (seen = nTest /\ total = 0)
        /\ (status = "failed" /\ pc = Idx("eval", "eval")) =>
              error = "ZeroDivisionError"

\* Evaluation of an empty test split ended with ZeroDivisionError.
C10_Witness ==
    /\ stage = "eval" /\ nTest = 0
    /\ status = "failed" /\ error = "ZeroDivisionError"
    /\ total = 0

====
